---- MODULE Spec2Model ----
(***************************************************************************)
(* Model of the ToTwiML derive macro (src/src/lib.rs).                     *)
(*                                                                         *)
(* Two stages are modelled.  The derivation stage is the body of           *)
(* to_twiml_derive: one pass over the fields of a struct that fills        *)
(* text_field, nested_field and attr_fields, followed by the expansion of  *)
(* the write_xml implementation.  The run-time stage is the expanded       *)
(* write_xml, executed statement by statement against an event writer      *)
(* whose write calls may fail.                                             *)
(***************************************************************************)
EXTENDS Integers, Sequences, FiniteSets, TLC

VARIABLES
    data,          \* data.fields of the struct under derivation
    idx,           \* number of fields the `for field in data.fields` loop has processed
    text_field,    \* Option<(field_name, field_type)>
    nested_field,  \* Option<(field_name, field_type)>
    attr_fields,   \* Vec<(field_name, xml_name, field_type)>
    dpc,           \* position of the derivation: "fields" or "expanded"
    self,          \* the record instance write_xml was invoked on
    stack,         \* active write_xml calls, outermost first
    written,       \* the calls made to writer.write, in order, each with its outcome
    err,           \* an Err is travelling up the call stack through `?`
    result,        \* what the outermost write_xml returned: "none", "ok", "err"
    run,           \* number of top-level invocations started
    firstLog       \* the writer calls of the first invocation

vars == <<data, idx, text_field, nested_field, attr_fields, dpc,
          self, stack, written, err, result, run, firstLog>>

deriveVars == <<data, idx, text_field, nested_field, attr_fields, dpc>>
writeVars == <<self, stack, written, err, result, run, firstLog>>

(***************************************************************************)
(* Bounds of the model.                                                    *)
(***************************************************************************)
MaxFields == 2
MaxItems == 2

(***************************************************************************)
(* syn::Type, reduced to what the helper functions read: whether the type  *)
(* is a Type::Path, the ident of its last path segment, and the first      *)
(* generic argument of that segment: "-" when the segment has no           *)
(* angle-bracketed type argument, "?" when the argument is not a           *)
(* Type::Path, otherwise the ident of the argument's last segment.         *)
(***************************************************************************)
Ty(ident, arg) == [path |-> TRUE, ident |-> ident, arg |-> arg]
NonPathTy == [path |-> FALSE, ident |-> "-", arg |-> "-"]

\* fn is_optional(ty: &Type) -> bool
is_optional(ty) == ty.path /\ ty.ident = "Option"

\* fn is_vec_or_option_vec(ty: &Type) -> bool
is_vec_or_option_vec(ty) ==
    IF ty.path
    THEN IF ty.ident = "Vec" THEN TRUE
         ELSE IF ty.ident = "Option"
              THEN IF ty.arg \notin {"-", "?"} THEN ty.arg = "Vec" ELSE FALSE
              ELSE FALSE
    ELSE FALSE

\* Variant: "Option" is missing from the list of known names.
is_custom_type_without_option(ty) ==
    IF ty.path
    THEN ty.ident \notin {"String", "i32", "bool", "Vec"}
    ELSE TRUE

\* fn is_custom_type(ty: &Type) -> bool
is_custom_type(ty) ==
    IF ty.path
    THEN ty.ident \notin {"String", "i32", "bool", "Option", "Vec"}
    ELSE TRUE

(***************************************************************************)
(* Option<(Ident, Type)> and the tuples pushed on attr_fields.             *)
(***************************************************************************)
None == [some |-> FALSE, name |-> "", ty |-> NonPathTy]
Some(name, ty) == [some |-> TRUE, name |-> name, ty |-> ty]
AttrField(name, xml_name, ty) == [name |-> name, xml_name |-> xml_name, ty |-> ty]

(***************************************************************************)
(* Field metadata.  A field is [name, ty, attrs]; an attribute is          *)
(* [ident, parse, nested] where ident is the attribute's path, parse is    *)
(* the outcome of attr.parse_meta() ("err", or the Meta variant "list",    *)
(* "path", "namevalue") and nested the NestedMeta items of a Meta::List.   *)
(* A NestedMeta is [kind, ident, lit, value]: kind "namevalue" is          *)
(* Meta::NameValue (lit "str" is Lit::Str, anything else another literal), *)
(* kind "path" is Meta::Path, kind "other" any other NestedMeta.           *)
(***************************************************************************)
NameValue(ident, lit, value) ==
    [kind |-> "namevalue", ident |-> ident, lit |-> lit, value |-> value]
Path(ident) == [kind |-> "path", ident |-> ident, lit |-> "-", value |-> ""]
OtherNested == [kind |-> "other", ident |-> "-", lit |-> "-", value |-> ""]

XmlList(nested) == [ident |-> "xml", parse |-> "list", nested |-> nested]

\* The loop state of one field: lines 26-28 and the two content slots.
FieldState(xml_name, is_attribute, is_content, tf, nf) ==
    [xml_name |-> xml_name, is_attribute |-> is_attribute,
     is_content |-> is_content, text_field |-> tf, nested_field |-> nf]

\* The content slot a content-marked field of type ty is assigned to.
ContentSlot(ty) ==
    IF is_vec_or_option_vec(ty) \/ is_custom_type(ty) THEN "nested" ELSE "text"

\* Variant: a content slot that is already taken is kept (first one wins).
NestedMetaStepFirstWins(st, nested, field) ==
    IF nested.kind = "namevalue"
    THEN IF nested.ident = "attribute" /\ nested.lit = "str"
         THEN [st EXCEPT !.xml_name = nested.value, !.is_attribute = TRUE]
         ELSE st
    ELSE IF nested.kind = "path"
    THEN IF nested.ident = "content"
         THEN IF ContentSlot(field.ty) = "nested"
              THEN [st EXCEPT !.is_content = TRUE,
                              !.nested_field = IF @.some THEN @
                                               ELSE Some(field.name, field.ty)]
              ELSE [st EXCEPT !.is_content = TRUE,
                              !.text_field = IF @.some THEN @
                                             ELSE Some(field.name, field.ty)]
         ELSE st
    ELSE st

\* Variant: an attribute option marks the field whatever its literal is; only
\* the name is taken from a string literal.
NestedMetaStepAnyLiteral(st, nested, field) ==
    IF nested.kind = "namevalue"
    THEN IF nested.ident = "attribute"
         THEN IF nested.lit = "str"
              THEN [st EXCEPT !.xml_name = nested.value, !.is_attribute = TRUE]
              ELSE [st EXCEPT !.is_attribute = TRUE]
         ELSE st
    ELSE IF nested.kind = "path"
    THEN IF nested.ident = "content"
         THEN IF ContentSlot(field.ty) = "nested"
              THEN [st EXCEPT !.is_content = TRUE,
                              !.nested_field = Some(field.name, field.ty)]
              ELSE [st EXCEPT !.is_content = TRUE,
                              !.text_field = Some(field.name, field.ty)]
         ELSE st
    ELSE st

\* match nested { ... }: one NestedMeta of an #[xml(...)] list.
NestedMetaStep(st, nested, field) ==
    IF nested.kind = "namevalue"
    THEN IF nested.ident = "attribute" /\ nested.lit = "str"
         THEN [st EXCEPT !.xml_name = nested.value, !.is_attribute = TRUE]
         ELSE st
    ELSE IF nested.kind = "path"
    THEN IF nested.ident = "content"
         THEN IF ContentSlot(field.ty) = "nested"
              THEN [st EXCEPT !.is_content = TRUE,
                              !.nested_field = Some(field.name, field.ty)]
              ELSE [st EXCEPT !.is_content = TRUE,
                              !.text_field = Some(field.name, field.ty)]
         ELSE st
    ELSE st

\* for nested in list.nested { ... }
RECURSIVE NestedLoop(_, _, _)
NestedLoop(st, list, field) ==
    IF list = <<>> THEN st
    ELSE NestedLoop(NestedMetaStep(st, Head(list), field), Tail(list), field)

\* One attribute of the field: the path test, parse_meta and the Meta match.
AttrStep(st, attr, field) ==
    IF attr.ident = "xml"
    THEN IF attr.parse # "err"
         THEN IF attr.parse = "list" THEN NestedLoop(st, attr.nested, field)
              ELSE st
         ELSE st
    ELSE st

\* for attr in &field.attrs { ... }
RECURSIVE AttrLoop(_, _, _)
AttrLoop(st, attrs, field) ==
    IF attrs = <<>> THEN st
    ELSE AttrLoop(AttrStep(st, Head(attrs), field), Tail(attrs), field)

\* The body of `for field in data.fields.iter()` up to the attribute push.
FieldBody(field, tf, nf) ==
    AttrLoop(FieldState(field.name, FALSE, FALSE, tf, nf), field.attrs, field)

\* if is_attribute { attr_fields.push(...) }
PushAttr(af, st, field) ==
    IF st.is_attribute
    THEN Append(af, AttrField(field.name, st.xml_name, field.ty))
    ELSE af

\* The whole loop over a field list, as one function of the list.
RECURSIVE Classify(_, _, _, _)
Classify(fields, tf, nf, af) ==
    IF fields = <<>> THEN [text_field |-> tf, nested_field |-> nf, attr_fields |-> af]
    ELSE LET st == FieldBody(Head(fields), tf, nf)
         IN Classify(Tail(fields), st.text_field, st.nested_field,
                     PushAttr(af, st, Head(fields)))

Derive(fields) == Classify(fields, None, None, <<>>)

(***************************************************************************)
(* The structs the derivation is run on.  Field names stand for the        *)
(* identifiers in declaration order.                                       *)
(***************************************************************************)
Idents == <<"f1", "f2", "f3", "f4">>

DeclTypes ==
    {Ty("String", "-"), Ty("i32", "-"), Ty("bool", "-"), Ty("u32", "-"),
     Ty("Number", "-"), Ty("Option", "String"), Ty("Option", "Number"),
     Ty("Option", "Vec"), Ty("Option", "?"), Ty("Vec", "Number"),
     Ty("Vec", "String"), NonPathTy}

\* The options written inside #[xml(...)].
MetaOptions ==
    {NameValue("attribute", "str", "a"), NameValue("attribute", "str", "b"),
     NameValue("attribute", "int", ""), Path("content")}

InertOptions == {NameValue("rename", "str", "a"), Path("skip"), OtherNested}

MetaLists ==
    {<<>>} \cup {<<o>> : o \in MetaOptions \cup InertOptions}
           \cup {<<o, p>> : o \in MetaOptions, p \in MetaOptions}

OtherAttrs ==
    {[ident |-> "doc", parse |-> "namevalue", nested |-> <<>>],
     [ident |-> "xml", parse |-> "err", nested |-> <<>>],
     [ident |-> "xml", parse |-> "path", nested |-> <<>>],
     [ident |-> "xml", parse |-> "namevalue", nested |-> <<>>],
     [ident |-> "doc", parse |-> "list", nested |-> <<Path("content")>>]}

ContentOnly == <<XmlList(<<Path("content")>>)>>

RichForms ==
    {<<XmlList(l)>> : l \in MetaLists}
    \cup {<<a>> : a \in OtherAttrs}
    \cup {<<XmlList(<<NameValue("attribute", "str", "a")>>),
            XmlList(<<NameValue("attribute", "int", ""), Path("content")>>)>>}

FewForms ==
    {<<>>,
     <<XmlList(<<NameValue("attribute", "int", ""), Path("content")>>)>>,
     <<XmlList(<<NameValue("attribute", "str", "a"), Path("content")>>)>>,
     <<[ident |-> "xml", parse |-> "err", nested |-> <<>>], XmlList(<<Path("content")>>)>>}

\* What a field may look like, name aside.
FieldForms ==
    {[ty |-> t, attrs |-> ContentOnly] : t \in DeclTypes}
    \cup {[ty |-> Ty("Option", "String"), attrs |-> a] : a \in RichForms}
    \cup {[ty |-> Ty("Vec", "Number"), attrs |-> a] : a \in FewForms}

Field(i, form) == [name |-> Idents[i], ty |-> form.ty, attrs |-> form.attrs]

\* The structs of n fields over a set of forms.
StructsOver(forms, n) ==
    {[i \in 1..n |-> Field(i, f[i])] : f \in [1..n -> forms]}

(***************************************************************************)
(* The derivation: to_twiml_derive.                                        *)
(***************************************************************************)
\* No write_xml has been invoked yet.
Idle ==
    /\ self = <<>>
    /\ stack = <<>>
    /\ written = <<>>
    /\ err = FALSE
    /\ result = "none"
    /\ run = 0
    /\ firstLog = <<>>

InitDerive ==
    /\ \E n \in 0..MaxFields : data \in StructsOver(FieldForms, n)
    /\ idx = 0
    /\ text_field = None
    /\ nested_field = None
    /\ attr_fields = <<>>
    /\ dpc = "fields"
    /\ Idle

\* One iteration of `for field in data.fields.iter()`.
ProcessField ==
    /\ dpc = "fields"
    /\ idx < Len(data)
    /\ LET field == data[idx + 1]
           st == FieldBody(field, text_field, nested_field)
       IN /\ text_field' = st.text_field
          /\ nested_field' = st.nested_field
          /\ attr_fields' = PushAttr(attr_fields, st, field)
    /\ idx' = idx + 1
    /\ UNCHANGED <<data, dpc>>

\* The loop is over: attr_collectors, text_write and nested_write are built
\* from the three results and the implementation is expanded.
Expand ==
    /\ dpc = "fields"
    /\ idx = Len(data)
    /\ dpc' = "expanded"
    /\ UNCHANGED <<data, idx, text_field, nested_field, attr_fields>>

NextDerive ==
    \/ ProcessField /\ UNCHANGED writeVars
    \/ Expand /\ UNCHANGED writeVars

SpecDerive == InitDerive /\ [][NextDerive]_vars

(***************************************************************************)
(* Record instances.  An instance is [name, fields, vals]: the struct's    *)
(* ident, its declared fields and one value per field.  A value is         *)
(* [some, str, items]: a scalar is Str(s), an absent Option is Absent, a   *)
(* Vec (or a present Option<Vec>) is Items(seq) and a nested record is     *)
(* Items(<<record>>).                                                      *)
(***************************************************************************)
Str(s) == [some |-> TRUE, str |-> s, items |-> <<>>]
Absent == [some |-> FALSE, str |-> "", items |-> <<>>]
Items(seq) == [some |-> TRUE, str |-> "", items |-> seq]

Instance(name, fields, vals) == [name |-> name, fields |-> fields, vals |-> vals]

Vals == <<"1", "2", "3", "4">>

AttrOnly(xml_name) == <<XmlList(<<NameValue("attribute", "str", xml_name)>>)>>

\* struct Number { #[xml(content)] body: String, #[xml(attribute = "kind")] kind: Option<String> }
NumberFields ==
    <<[name |-> "body", ty |-> Ty("String", "-"), attrs |-> ContentOnly],
      [name |-> "kind", ty |-> Ty("Option", "String"), attrs |-> AttrOnly("kind")]>>

NumberInst(k) ==
    Instance("Number", NumberFields,
             <<Str(Vals[k]), IF k % 2 = 1 THEN Str("odd") ELSE Absent>>)

NumberSeq(n) == [k \in 1..n |-> NumberInst(k)]

\* struct Dial { #[xml(attribute = "timeout")] timeout: i32, #[xml(content)] numbers: Vec<Number> }
DialFields ==
    <<[name |-> "timeout", ty |-> Ty("i32", "-"), attrs |-> AttrOnly("timeout")],
      [name |-> "numbers", ty |-> Ty("Vec", "Number"), attrs |-> ContentOnly]>>

DialInst(k) ==
    Instance("Dial", DialFields, <<Str(Vals[k]), Items(NumberSeq(k))>>)

DialSeq(n) == [k \in 1..n |-> DialInst(k)]

\* The fields a struct that is serialized may have: the types are those the
\* expanded code compiles for.
WriteForms ==
    {[ty |-> Ty("String", "-"), attrs |-> AttrOnly("a")],
     [ty |-> Ty("Option", "String"), attrs |-> AttrOnly("b")],
     [ty |-> Ty("String", "-"), attrs |-> ContentOnly],
     [ty |-> Ty("Option", "String"), attrs |-> ContentOnly],
     [ty |-> Ty("Option", "String"),
      attrs |-> <<XmlList(<<NameValue("attribute", "str", "a"), Path("content")>>)>>],
     [ty |-> Ty("Option", "Vec"), attrs |-> ContentOnly],
     [ty |-> Ty("Number", "-"), attrs |-> ContentOnly],
     [ty |-> Ty("Vec", "Dial"), attrs |-> ContentOnly]}

\* The values field i of type ty may hold.
ValuesOf(ty, i) ==
    IF ty.ident = "Vec"
    THEN IF ty.arg = "Dial" THEN {Items(DialSeq(n)) : n \in 0..MaxItems}
         ELSE {Items(NumberSeq(n)) : n \in 0..MaxItems}
    ELSE IF ty.ident = "Option"
    THEN IF ty.arg = "Vec"
         THEN {Absent} \cup {Items(NumberSeq(n)) : n \in 0..MaxItems}
         ELSE {Absent, Str(Vals[i])}
    ELSE IF ty.ident = "Number" THEN {Items(<<NumberInst(i)>>)}
    ELSE {Str(Vals[i])}

InstancesOf(name, fields) ==
    {Instance(name, fields, v) :
        v \in {w \in [1..Len(fields) -> UNION {ValuesOf(fields[i].ty, i) : i \in 1..Len(fields)}] :
                  \A i \in 1..Len(fields) : w[i] \in ValuesOf(fields[i].ty, i)}}

\* self.#field
FieldValue(inst, name) ==
    inst.vals[CHOOSE i \in 1..Len(inst.fields) : inst.fields[i].name = name]

(***************************************************************************)
(* The expanded implementation: `impl ToTwiML for #name`, built from the   *)
(* three results of the derivation.                                        *)
(***************************************************************************)
Impl(name, tf, nf, af) ==
    [name |-> name, text_field |-> tf, nested_field |-> nf, attr_fields |-> af]

\* The implementation a struct of the crate gets from its own derive.
ImplOf(inst) ==
    LET d == Derive(inst.fields)
    IN Impl(inst.name, d.text_field, d.nested_field, d.attr_fields)

\* Variant: each pair is put in front of those collected before it.
RECURSIVE AttrCollectorsPrepending(_, _)
AttrCollectorsPrepending(af, inst) ==
    IF af = <<>> THEN <<>>
    ELSE LET a == Head(af)
             value == FieldValue(inst, a.name)
             rest == AttrCollectorsPrepending(Tail(af), inst)
         IN IF is_optional(a.ty)
            THEN IF value.some THEN rest \o <<<<a.xml_name, value.str>>>> ELSE rest
            ELSE rest \o <<<<a.xml_name, value.str>>>>

\* attr_collectors, run on an instance: the `attributes` vector.
RECURSIVE AttrCollectors(_, _)
AttrCollectors(af, inst) ==
    IF af = <<>> THEN <<>>
    ELSE LET a == Head(af)
             value == FieldValue(inst, a.name)
             rest == AttrCollectors(Tail(af), inst)
         IN IF is_optional(a.ty)
            THEN IF value.some THEN <<<<a.xml_name, value.str>>>> \o rest ELSE rest
            ELSE <<<<a.xml_name, value.str>>>> \o rest

\* Variant: the element carries the number of the invocation, a counter kept
\* between invocations.
StartElementCounted(name, attributes) ==
    [kind |-> "start", name |-> name,
     attrs |-> attributes \o <<<<"seq", Vals[run]>>>>, text |-> ""]

StartElement(name, attributes) ==
    [kind |-> "start", name |-> name, attrs |-> attributes, text |-> ""]
Characters(text) == [kind |-> "chars", name |-> "", attrs |-> <<>>, text |-> text]
EndElement == [kind |-> "end", name |-> "", attrs |-> <<>>, text |-> ""]

Frame(impl, inst) == [impl |-> impl, self |-> inst, pc |-> "start", i |-> 0]

Top == stack[Len(stack)]
SetTop(f) == [stack EXCEPT ![Len(stack)] = f]
Pop == SubSeq(stack, 1, Len(stack) - 1)

\* Variant: the end element is written before the body.
FollowingEndBeforeBody(pc) ==
    IF pc = "start" THEN "end"
    ELSE IF pc = "end" THEN "text"
    ELSE IF pc = "text" THEN "nested"
    ELSE "return"

\* The order of the statements of the expanded write_xml: the start element,
\* #text_write, #nested_write, the end element, Ok(()).
Following(pc) ==
    IF pc = "start" THEN "text"
    ELSE IF pc = "text" THEN "nested"
    ELSE IF pc = "nested" THEN "end"
    ELSE "return"

Goto(pc) == SetTop([Top EXCEPT !.pc = pc])

\* Variant: the items are visited from the last to the first.
NextItemReversed(items, i) == items[Len(items) - i]

\* `for item in items`: the item the loop visits after i items.
NextItem(items, i) == items[i + 1]

\* What the writer answers to its next call.  The writer of the first
\* invocation may fail any call; the second invocation is given a writer
\* that behaves as the first one did.
WriterAnswers ==
    IF run <= 1 THEN {TRUE, FALSE}
    ELSE IF Len(written) < Len(firstLog) THEN {firstLog[Len(written) + 1].ok}
    ELSE {TRUE}

\* Variant: the result of the write is dropped and the frame goes on.
WriteIgnoringFailure(ev, ok, next) ==
    /\ written' = Append(written, [ev |-> ev, ok |-> ok])
    /\ stack' = next
    /\ err' = FALSE

\* writer.write(ev)?  On Ok the calling frame goes on with `next`; on Err the
\* `?` returns the failure from the calling frame.
Write(ev, ok, next) ==
    /\ written' = Append(written, [ev |-> ev, ok |-> ok])
    /\ IF ok
       THEN /\ stack' = next
            /\ err' = FALSE
       ELSE /\ stack' = Pop
            /\ err' = TRUE

(***************************************************************************)
(* The run-time actions.                                                   *)
(***************************************************************************)
\* A caller invokes write_xml on an instance of the derived struct, with a
\* fresh writer.
Invoke ==
    /\ dpc = "expanded"
    /\ stack = <<>>
    /\ run = 0
    /\ self' \in InstancesOf("Top", data)
    /\ stack' = <<Frame(Impl("Top", text_field, nested_field, attr_fields), self')>>
    /\ written' = <<>>
    /\ run' = 1
    /\ UNCHANGED <<err, result, firstLog>>

\* The caller invokes write_xml on the same instance again, with another
\* fresh writer.
InvokeAgain ==
    /\ stack = <<>>
    /\ run = 1
    /\ result # "none"
    /\ stack' = <<Frame(Impl("Top", text_field, nested_field, attr_fields), self)>>
    /\ written' = <<>>
    /\ firstLog' = written
    /\ err' = FALSE
    /\ result' = "none"
    /\ run' = 2
    /\ UNCHANGED self

\* attributes are collected and the start element is written (lines 135-142).
WriteStart ==
    /\ stack # <<>> /\ ~err
    /\ Top.pc = "start"
    /\ \E ok \in WriterAnswers :
          Write(StartElement(Top.impl.name,
                             AttrCollectors(Top.impl.attr_fields, Top.self)),
                ok, Goto(Following("start")))
    /\ UNCHANGED <<self, result, run, firstLog>>

\* #text_write (lines 86-100).
WriteText ==
    /\ stack # <<>> /\ ~err
    /\ Top.pc = "text"
    /\ LET tf == Top.impl.text_field
           next == Goto(Following("text"))
       IN IF tf.some
          THEN LET value == FieldValue(Top.self, tf.name)
               IN IF is_optional(tf.ty)
                  THEN IF value.some
                       THEN \E ok \in WriterAnswers :
                               Write(Characters(value.str), ok, next)
                       ELSE /\ stack' = next
                            /\ UNCHANGED <<written, err>>
                  ELSE \E ok \in WriterAnswers :
                          Write(Characters(value.str), ok, next)
          ELSE /\ stack' = next
               /\ UNCHANGED <<written, err>>
    /\ UNCHANGED <<self, result, run, firstLog>>

\* #nested_write (lines 103-128): the next item.write_xml(writer) call, or
\* the end of the statement.
WriteNested ==
    /\ stack # <<>> /\ ~err
    /\ Top.pc = "nested"
    /\ LET nf == Top.impl.nested_field
           done == Goto(Following("nested"))
       IN IF nf.some
          THEN LET value == FieldValue(Top.self, nf.name)
                   call == LET item == NextItem(value.items, Top.i)
                           IN Append(SetTop([Top EXCEPT !.i = Top.i + 1]),
                                     Frame(ImplOf(item), item))
               IN IF is_vec_or_option_vec(nf.ty)
                  THEN IF is_optional(nf.ty)
                       THEN IF value.some /\ Top.i < Len(value.items)
                            THEN stack' = call
                            ELSE stack' = done
                       ELSE IF Top.i < Len(value.items)
                            THEN stack' = call
                            ELSE stack' = done
                  ELSE IF Top.i = 0 THEN stack' = call ELSE stack' = done
          ELSE stack' = done
    /\ UNCHANGED <<self, written, err, result, run, firstLog>>

\* writer.write(XmlEvent::end_element())?  (line 145).
WriteEnd ==
    /\ stack # <<>> /\ ~err
    /\ Top.pc = "end"
    /\ \E ok \in WriterAnswers : Write(EndElement, ok, Goto(Following("end")))
    /\ UNCHANGED <<self, result, run, firstLog>>

\* Ok(())  (line 146): the call returns to the item loop of its caller, or
\* to the caller of the outermost write_xml.
ReturnOk ==
    /\ stack # <<>> /\ ~err
    /\ Top.pc = "return"
    /\ stack' = Pop
    /\ result' = IF Len(stack) = 1 THEN "ok" ELSE result
    /\ UNCHANGED <<self, written, err, run, firstLog>>

\* item.write_xml(writer)? in a caller whose callee returned Err.
Propagate ==
    /\ err
    /\ stack # <<>>
    /\ stack' = Pop
    /\ UNCHANGED <<self, written, err, result, run, firstLog>>

\* The failure reaches the caller of the outermost write_xml.
ReturnErr ==
    /\ err
    /\ stack = <<>>
    /\ result = "none"
    /\ result' = "err"
    /\ UNCHANGED <<self, stack, written, err, run, firstLog>>

Init ==
    /\ \E n \in 0..MaxFields : data \in StructsOver(WriteForms, n)
    /\ idx = 0
    /\ text_field = None
    /\ nested_field = None
    /\ attr_fields = <<>>
    /\ dpc = "fields"
    /\ Idle

Next ==
    \/ ProcessField /\ UNCHANGED writeVars
    \/ Expand /\ UNCHANGED writeVars
    \/ Invoke /\ UNCHANGED deriveVars
    \/ InvokeAgain /\ UNCHANGED deriveVars
    \/ WriteStart /\ UNCHANGED deriveVars
    \/ WriteText /\ UNCHANGED deriveVars
    \/ WriteNested /\ UNCHANGED deriveVars
    \/ WriteEnd /\ UNCHANGED deriveVars
    \/ ReturnOk /\ UNCHANGED deriveVars
    \/ Propagate /\ UNCHANGED deriveVars
    \/ ReturnErr /\ UNCHANGED deriveVars

Spec == Init /\ [][Next]_vars

(***************************************************************************)
(* Vocabulary of the claims, stated on the declaration of a struct rather  *)
(* than on the loop that processes it.                                     *)
(***************************************************************************)
\* The options of a field in the order written, over all its parsed
\* #[xml(...)] lists.
RECURSIVE OptionsOf(_)
OptionsOf(attrs) ==
    IF attrs = <<>> THEN <<>>
    ELSE (IF Head(attrs).ident = "xml" /\ Head(attrs).parse = "list"
          THEN Head(attrs).nested ELSE <<>>) \o OptionsOf(Tail(attrs))

IsContentMarker(o) == o.kind = "path" /\ o.ident = "content"
IsAttributeOption(o) == o.kind = "namevalue" /\ o.ident = "attribute"
IsMalformed(o) == IsAttributeOption(o) /\ o.lit # "str"
IsWellFormedAttribute(o) == IsAttributeOption(o) /\ o.lit = "str"

ContentMarked(field) == SelectSeq(OptionsOf(field.attrs), IsContentMarker) # <<>>
AttributeMarked(field) ==
    SelectSeq(OptionsOf(field.attrs), IsWellFormedAttribute) # <<>>
HasMalformed(field) == SelectSeq(OptionsOf(field.attrs), IsMalformed) # <<>>

\* The name the field's attribute is written under.
MarkupName(field) ==
    LET named == SelectSeq(OptionsOf(field.attrs), IsWellFormedAttribute)
    IN IF named = <<>> THEN field.name ELSE named[Len(named)].value

\* The shape of a declared type.
ShapeOf(ty) ==
    IF ~ty.path THEN "NestedRecord"
    ELSE IF ty.ident = "Vec" THEN "Sequence"
    ELSE IF ty.ident = "Option"
         THEN IF ty.arg = "Vec" THEN "OptionalSequence" ELSE "Optional"
    ELSE IF ty.ident \in {"String", "bool", "i32"} THEN "Scalar"
    ELSE "NestedRecord"

NestedEligible(ty) == ShapeOf(ty) \in {"Sequence", "OptionalSequence", "NestedRecord"}
TextEligible(ty) == ~NestedEligible(ty)

\* The fields processed so far.
Processed == SubSeq(data, 1, idx)

\* The last field of a list that is content-marked and text-eligible
\* (text = TRUE) or nested-eligible (text = FALSE); None if there is none.
LastContent(fields, text) ==
    LET hits == {i \in 1..Len(fields) :
                    /\ ContentMarked(fields[i])
                    /\ TextEligible(fields[i].ty) = text}
    IN IF hits = {} THEN None
       ELSE LET i == CHOOSE j \in hits : \A k \in hits : k <= j
            IN Some(fields[i].name, fields[i].ty)

(***************************************************************************)
(* C6: after the single pass over the fields processed so far, text_field  *)
(* is the last content-marked text-eligible field and nested_field the     *)
(* last content-marked nested-eligible field (None when there is none), no *)
(* field is in both slots, and no step of the pass changes both slots.     *)
(***************************************************************************)
\* C6, the state part: the two slots after the fields processed so far.
C6_Slots ==
    /\ text_field = LastContent(Processed, TRUE)
    /\ nested_field = LastContent(Processed, FALSE)
    /\ text_field.some /\ nested_field.some => text_field.name # nested_field.name

\* C6, the step part: an assignment to one slot leaves the other unchanged.
C6_OneSlotPerStep ==
    ~(text_field' # text_field /\ nested_field' # nested_field)

\* C6: in every state the slots hold the last content-marked field of their
\* eligibility, and no step changes both slots.
C6_LastContentFieldWins == [](C6_Slots) /\ [][C6_OneSlotPerStep]_vars

\* Two content-marked text-eligible fields: the second one holds the text
\* slot and the nested slot is still empty.
C6_Witness ==
    /\ idx = 2
    /\ ContentMarked(data[1]) /\ TextEligible(data[1].ty)
    /\ ContentMarked(data[2]) /\ TextEligible(data[2].ty)
    /\ text_field = Some(data[2].name, data[2].ty)
    /\ nested_field = None

(***************************************************************************)
(* C9: the field processed last, when content-marked, is in the nested     *)
(* slot exactly when its shape is Sequence, Optional(Sequence) or          *)
(* NestedRecord, and in the text slot in every other case.                 *)
(***************************************************************************)
C9_SlotByShape ==
    idx >= 1 /\ ContentMarked(data[idx]) =>
        LET f == data[idx]
        IN IF ShapeOf(f.ty) \in {"Sequence", "OptionalSequence", "NestedRecord"}
           THEN nested_field = Some(f.name, f.ty) /\ text_field.name # f.name
           ELSE text_field = Some(f.name, f.ty) /\ nested_field.name # f.name

\* Optional(NestedRecord) goes to the text slot.
C9_Witness ==
    /\ idx >= 1
    /\ ContentMarked(data[idx])
    /\ data[idx].ty = Ty("Option", "Number")
    /\ text_field = Some(data[idx].name, data[idx].ty)

(***************************************************************************)
(* C10: an attribute option with a non-string value is skipped.  The       *)
(* classification of the fields processed so far is the classification of  *)
(* the same fields with every such option deleted, and a field with        *)
(* neither a well-formed attribute option nor a content marker is in       *)
(* neither the attribute list nor a content slot.                          *)
(***************************************************************************)
NotMalformed(o) == ~IsMalformed(o)

RECURSIVE ScrubAttrs(_)
ScrubAttrs(attrs) ==
    IF attrs = <<>> THEN <<>>
    ELSE <<[Head(attrs) EXCEPT !.nested = SelectSeq(@, NotMalformed)]>>
         \o ScrubAttrs(Tail(attrs))

Scrub(fields) ==
    [i \in 1..Len(fields) |-> [fields[i] EXCEPT !.attrs = ScrubAttrs(@)]]

Events == [k \in 1..Len(written) |-> written[k].ev]

Failed(k) == ~written[k].ok

\* Elements open after the first k events of a sequence of events.
RECURSIVE Depth(_, _)
Depth(evs, k) ==
    IF k = 0 THEN 0
    ELSE Depth(evs, k - 1)
         + (IF evs[k].kind = "start" THEN 1 ELSE IF evs[k].kind = "end" THEN -1 ELSE 0)

OptionalShape(ty) == ShapeOf(ty) \in {"Optional", "OptionalSequence"}

\* The attribute-marked fields of an instance whose value is written.
PresentAttrs(inst) ==
    {i \in 1..Len(inst.fields) :
        /\ AttributeMarked(inst.fields[i])
        /\ ~(OptionalShape(inst.fields[i].ty) /\ ~inst.vals[i].some)}

\* Their (markupName, value) pairs in declaration order.
ExpectedAttrs(inst) ==
    LET Present(i) == i \in PresentAttrs(inst)
        order == SelectSeq([i \in 1..Len(inst.fields) |-> i], Present)
    IN [k \in 1..Len(order) |->
           <<MarkupName(inst.fields[order[k]]), inst.vals[order[k]].str>>]

\* The outermost call has returned Ok.
Succeeded == run >= 1 /\ stack = <<>> /\ result = "ok"

\* The events between the start and the end of the outermost element.
Body == SubSeq(Events, 2, Len(Events) - 1)

\* The places of Body where a child element starts.
ChildStarts ==
    {k \in 1..Len(Body) : Body[k].kind = "start" /\ Depth(Body, k - 1) = 0}

\* The j-th of them.
ChildStart(j) ==
    CHOOSE k \in ChildStarts : Cardinality({m \in ChildStarts : m <= k}) = j

\* Every element of Body is closed, and none is closed before it is opened.
BodyBalanced ==
    /\ \A k \in 1..Len(Body) : Depth(Body, k) >= 0
    /\ Depth(Body, Len(Body)) = 0

\* The text the outermost record writes, as a sequence of events.
TextEvents ==
    IF text_field.some
    THEN LET value == FieldValue(self, text_field.name)
         IN IF value.some THEN <<Characters(value.str)>> ELSE <<>>
    ELSE <<>>

(***************************************************************************)
(* C1: a record with a text field writes no nested content: a call whose   *)
(* implementation has a text_field never delegates to an item.             *)
(***************************************************************************)
C1_TextExcludesNested ==
    \A k \in 1..Len(stack) : stack[k].impl.text_field.some => stack[k].i = 0

(***************************************************************************)
(* C7: a record whose text field is an Option that is None writes no       *)
(* characters event and no child element.                                  *)
(***************************************************************************)
C7_AbsentTextWritesNoBody ==
    run >= 1 /\ text_field.some /\ is_optional(text_field.ty)
             /\ ~FieldValue(self, text_field.name).some =>
        \A k \in 1..Len(written) :
            /\ written[k].ev.kind # "chars"
            /\ k > 1 => written[k].ev.kind # "start"

(***************************************************************************)
(* C2: the first write that fails is the last call the writer receives,    *)
(* at any depth; the failure travels up through every enclosing call and   *)
(* is what the outermost call returns.                                     *)
(***************************************************************************)
C2_FailureAborts ==
    /\ \A k \in 1..Len(written) : Failed(k) => k = Len(written)
    /\ (written # <<>> /\ Failed(Len(written))) => err /\ result # "ok"
    /\ err => written # <<>> /\ Failed(Len(written))
    /\ result = "err" => err /\ stack = <<>>
    /\ result = "ok" => \A k \in 1..Len(written) : ~Failed(k)

\* A write fails inside an item of an item: three elements are open, and the
\* outermost call has returned the failure.
C2_Witness ==
    /\ result = "err"
    /\ Len(written) >= 2
    /\ Depth(Events, Len(Events) - 1) = 3
    /\ written[Len(written)].ev.kind = "chars"

(***************************************************************************)
(* C3: the start element a call writes carries, in declaration order, one  *)
(* (markupName, value) pair for every attribute-marked field of the        *)
(* record, content-marked or not, except the optional ones whose value is  *)
(* absent.                                                                 *)
(***************************************************************************)
C3_AttributesInDeclarationOrder ==
    stack # <<>> /\ ~err /\ Top.pc = "text" =>
        LET w == written[Len(written)]
        IN /\ w.ok
           /\ w.ev.kind = "start"
           /\ w.ev.name = Top.self.name
           /\ w.ev.attrs = ExpectedAttrs(Top.self)
           /\ Len(w.ev.attrs) = Cardinality(PresentAttrs(Top.self))

\* Two attribute fields, the second one also content-marked, both written.
C3_Witness ==
    /\ Len(stack) = 1 /\ ~err /\ Top.pc = "text"
    /\ Len(data) = 2
    /\ AttributeMarked(data[2]) /\ ContentMarked(data[2])
    /\ Len(written[1].ev.attrs) = 2
    /\ written[1].ev.attrs[2] = <<"a", "2">>

(***************************************************************************)
(* C4: a record whose nested field is a sequence of n items writes, on     *)
(* success, n child elements between its start and its end, the j-th being *)
(* the element of the j-th item, each closed; when the sequence is an      *)
(* absent Option no child element is written.                              *)
(***************************************************************************)
SequenceNested == nested_field.some /\ is_vec_or_option_vec(nested_field.ty)

NestedItems ==
    LET value == FieldValue(self, nested_field.name)
    IN IF value.some THEN value.items ELSE <<>>

NestedAbsent == ~FieldValue(self, nested_field.name).some

\* C4, the part about the items: one closed child element per item, in order.
C4_Children ==
    /\ Events[1].kind = "start"
    /\ Events[Len(Events)].kind = "end"
    /\ BodyBalanced
    /\ Cardinality(ChildStarts) = Len(NestedItems)
    /\ \A j \in 1..Len(NestedItems) :
          /\ Body[ChildStart(j)].name = NestedItems[j].name
          /\ Body[ChildStart(j)].attrs = ExpectedAttrs(NestedItems[j])

\* C4 as stated: n child elements for n items, in order, and with the
\* sequence absent the output is the start/end pair only.
C4_AbsentSequenceWritesPairOnly ==
    Succeeded /\ SequenceNested =>
        /\ C4_Children
        /\ NestedAbsent => Len(Events) = 2

\* C4 as amended: n child elements for n items, in order, and with the
\* sequence absent the body holds no element, only the characters of the
\* record's text field when it has one that is present.
C4_ChildPerItem ==
    Succeeded /\ SequenceNested =>
        /\ C4_Children
        /\ NestedAbsent => Body = TextEvents

\* Two items written in order.
C4_Witness ==
    /\ Succeeded /\ SequenceNested
    /\ Len(NestedItems) = 2
    /\ Cardinality(ChildStarts) = 2

(***************************************************************************)
(* C5: a call goes through Started, BodyWritten and Closed in that order   *)
(* and never back; the elements open in the writer are those of the calls  *)
(* that are started and not closed; a successful run begins with the       *)
(* record's start element, ends with its end element and keeps every other *)
(* event between the two.                                                  *)
(***************************************************************************)
Phase(pc) ==
    IF pc = "start" THEN 0
    ELSE IF pc \in {"text", "nested"} THEN 1
    ELSE IF pc = "end" THEN 2
    ELSE 3

\* C5, the state part: open elements match the started calls, and a
\* successful run is one element from its first to its last event.
C5_OpenElements ==
    /\ ~err /\ run >= 1 =>
          Depth(Events, Len(Events))
              = Cardinality({k \in 1..Len(stack) : Phase(stack[k].pc) \in {1, 2}})
    /\ Succeeded =>
          /\ Len(Events) >= 2
          /\ Events[1].kind = "start" /\ Events[1].name = self.name
          /\ Events[Len(Events)].kind = "end"
          /\ \A k \in 1..(Len(Events) - 1) : Depth(Events, k) >= 1
          /\ Depth(Events, Len(Events)) = 0

\* C5, the step part: no call goes back to an earlier phase.
C5_NoBacktracking ==
    \A k \in 1..Len(stack) :
        k <= Len(stack') => Phase(stack'[k].pc) >= Phase(stack[k].pc)

\* C5: every call traverses Started, BodyWritten, Closed in order, once.
C5_LinearTraversal == [](C5_OpenElements) /\ [][C5_NoBacktracking]_vars

\* A successful run with characters and a child element in the body.
C5_Witness ==
    /\ Succeeded
    /\ \E k \in 1..Len(Body) : Body[k].kind = "chars" /\ Depth(Body, k) = 0
    /\ ChildStarts # {}

====
